---- MODULE Spec2Model ----
(***************************************************************************)
(* Model of the theme cache of marp-vscode (class Themes) and of the path  *)
(* normalizer it uses.                                                     *)
(*                                                                         *)
(* Strings are sequences of one-character strings, so that startsWith,     *)
(* split and join are computed character by character as the code does.    *)
(* File-system paths follow Node's posix `path` module.                    *)
(***************************************************************************)
EXTENDS Integers, Sequences, FiniteSets, TLC

\* ------------------------------------------------------------------ bounds
\* Longest reference, in path segments, the normalizer is run on.
MaxSegs == 4
\* Resolutions (calls of registerTheme that start a fetch) per behaviour.
MaxFetches == 3
\* Distinct contents a watched file takes; every write changes the content.
MaxVersion == 2
\* Calls of fetch (utils.ts) that run together.
MaxCalls == 2
\* Steps in which the time of one timeout passes.
TicksPerTimeout == 2
\* Ports next to the first candidate that other processes may hold.
MaxBusy == 3
\* Lines of size metadata of one theme.
MaxLines == 4
\* GET requests the proxy server handles together.
MaxRequests == 2

\* ----------------------------------------------------------------- strings
SLASH == "/"
DOT == "."

StartsWith(s, prefix) ==
  /\ Len(s) >= Len(prefix)
  /\ \A i \in 1..Len(prefix) : s[i] = prefix[i]

\* String.prototype.split on a one-character separator.
RECURSIVE SplitFrom(_, _, _, _)
SplitFrom(s, sep, i, cur) ==
  IF i > Len(s) THEN <<cur>>
  ELSE IF s[i] = sep THEN <<cur>> \o SplitFrom(s, sep, i + 1, <<>>)
  ELSE SplitFrom(s, sep, i + 1, Append(cur, s[i]))

Split(s, sep) == SplitFrom(s, sep, 1, <<>>)

\* Array.prototype.join on a one-character separator.
RECURSIVE Join(_, _)
Join(segs, sep) ==
  IF Len(segs) = 0 THEN <<>>
  ELSE IF Len(segs) = 1 THEN segs[1]
  ELSE segs[1] \o <<sep>> \o Join(Tail(segs), sep)

DotDot == <<DOT, DOT>>

\* ------------------------------------------------------- posix path module
\* normalizeString of an absolute path: empty and "." segments are skipped,
\* ".." removes the last kept segment and is dropped at the root.
RECURSIVE NormalizeSegs(_, _)
NormalizeSegs(segs, acc) ==
  IF Len(segs) = 0 THEN acc
  ELSE LET s == Head(segs) IN
    IF s = <<>> \/ s = <<DOT>> THEN NormalizeSegs(Tail(segs), acc)
    ELSE IF s = DotDot
      THEN NormalizeSegs(Tail(segs),
                         IF Len(acc) = 0 THEN acc ELSE SubSeq(acc, 1, Len(acc) - 1))
      ELSE NormalizeSegs(Tail(segs), Append(acc, s))

IsAbsolute(p) == Len(p) > 0 /\ p[1] = SLASH

\* path.resolve(from, p) for an absolute `from`, as the list of segments of
\* the result: an absolute p replaces `from`, an empty p is skipped.
ResolveSegs(from, p) ==
  IF IsAbsolute(p) THEN NormalizeSegs(Split(p, SLASH), <<>>)
  ELSE IF Len(p) = 0 THEN NormalizeSegs(Split(from, SLASH), <<>>)
  ELSE NormalizeSegs(Split(from \o <<SLASH>> \o p, SLASH), <<>>)

PathOfSegs(segs) == <<SLASH>> \o Join(segs, SLASH)

pathResolve(from, p) == PathOfSegs(ResolveSegs(from, p))

RECURSIVE CommonLen(_, _)
CommonLen(a, b) ==
  IF Len(a) = 0 \/ Len(b) = 0 \/ Head(a) # Head(b) THEN 0
  ELSE 1 + CommonLen(Tail(a), Tail(b))

\* path.relative(from, to): "" when both resolve to the same path, else one
\* ".." per segment of `from` after the common prefix, then the rest of `to`.
pathRelative(from, to) ==
  LET f == ResolveSegs(from, <<>>)
      t == ResolveSegs(to, <<>>)
      c == CommonLen(f, t)
      ups == [i \in 1..(Len(f) - c) |-> DotDot]
  IN IF f = t THEN <<>> ELSE Join(ups \o SubSeq(t, c + 1, Len(t)), SLASH)

\* --------------------------------------------------------------- URI, URL
LowerAlpha ==
  {"a", "b", "c", "d", "e", "f", "g", "h", "i", "j", "k", "l", "m",
   "n", "o", "p", "q", "r", "s", "t", "u", "v", "w", "x", "y", "z"}
Digits == {"0", "1", "2", "3", "4", "5", "6", "7", "8", "9"}
\* The characters \b treats as word characters, among those the model uses.
WordChars == LowerAlpha \cup Digits \cup {"_"}
\* [a-z0-9.+-]
SchemeChars == LowerAlpha \cup Digits \cup {".", "+", "-"}

HTTP == <<"h", "t", "t", "p", ":">>
HTTPS == <<"h", "t", "t", "p", "s", ":">>
FILE == <<"f", "i", "l", "e">>

isRemotePath(path) == StartsWith(path, HTTPS) \/ StartsWith(path, HTTP)

\* Index of the first character of s, from i on, that is not in set cs
\* (Len(s) + 1 when there is none).
RECURSIVE SkipWhile(_, _, _)
SkipWhile(s, cs, i) ==
  IF i > Len(s) \/ s[i] \notin cs THEN i ELSE SkipWhile(s, cs, i + 1)

\* /^[a-z0-9.+-]+:\/\/\b/.test(path)
isVirtualPath(path) ==
  LET j == SkipWhile(path, SchemeChars, 1) IN
    /\ j > 1
    /\ Len(path) >= j + 3
    /\ path[j] = ":" /\ path[j + 1] = SLASH /\ path[j + 2] = SLASH
    /\ path[j + 3] \in WordChars

\* rootUri is undefined or a Uri {scheme, authority, path}.
Undefined == [scheme |-> <<>>, authority |-> <<>>, path |-> <<>>, defined |-> FALSE]
Uri(scheme, authority, path) ==
  [scheme |-> scheme, authority |-> authority, path |-> path, defined |-> TRUE]

\* Uri.fsPath of a file URI without authority, on a posix host.
fsPath(uri) == uri.path

\* Percent-encoding of Uri.toString: unreserved characters and "/" are kept.
Unreserved == LowerAlpha \cup Digits \cup {"-", ".", "_", "~", SLASH}
RECURSIVE EncodePath(_)
EncodePath(s) ==
  IF Len(s) = 0 THEN <<>>
  ELSE (IF Head(s) \in Unreserved THEN <<Head(s)>>
        ELSE IF Head(s) = ":" THEN <<"%", "3", "A">>
        ELSE <<"%", "?", "?">>) \o EncodePath(Tail(s))

\* Uri.toString(): "//" is written only before an authority or for file.
UriToString(uri) ==
  uri.scheme \o <<":">>
    \o (IF Len(uri.authority) > 0 \/ uri.scheme = FILE THEN <<SLASH, SLASH>> ELSE <<>>)
    \o uri.authority \o EncodePath(uri.path)

\* The path of a parsed URL: "." and ".." segments are resolved, a trailing
\* one leaves an empty last segment, empty segments are kept.
RECURSIVE UrlPathSegs(_, _)
UrlPathSegs(segs, acc) ==
  IF Len(segs) = 0 THEN acc
  ELSE LET s == Head(segs)
           last == Len(segs) = 1
           popped == IF Len(acc) = 0 THEN acc ELSE SubSeq(acc, 1, Len(acc) - 1)
       IN IF s = DotDot
            THEN UrlPathSegs(Tail(segs), IF last THEN Append(popped, <<>>) ELSE popped)
          ELSE IF s = <<DOT>>
            THEN UrlPathSegs(Tail(segs), IF last THEN Append(acc, <<>>) ELSE acc)
          ELSE UrlPathSegs(Tail(segs), Append(acc, s))

\* Characters a URL host may not hold: new URL() throws on them.
ForbiddenHost == {" ", "<", ">", "[", "]", "^", "|"}

\* Index of the first character of s, from i on, that is in set stops.
RECURSIVE SkipUntil(_, _, _)
SkipUntil(s, stops, i) ==
  IF i > Len(s) \/ s[i] \in stops THEN i ELSE SkipUntil(s, stops, i + 1)

\* The reference up to its query or fragment.
CutQuery(p) == SubSeq(p, 1, SkipUntil(p, {"?", "#"}, 1) - 1)

\* new URL(p, 'dummy://dummy/') as {ok, pathname}; ok = FALSE when it throws.
\* A reference with a scheme is parsed on its own, the others against the
\* base, whose path is "/".
UrlParse(ref) ==
  LET p == CutQuery(ref)
      j == SkipWhile(p, SchemeChars, 1)
      hasScheme == j > 1 /\ j <= Len(p) /\ p[j] = ":" /\ p[1] \in LowerAlpha
      rest == IF hasScheme THEN SubSeq(p, j + 1, Len(p)) ELSE p
      hasAuth == StartsWith(rest, <<SLASH, SLASH>>)
      afterAuth == SubSeq(rest, 3, Len(rest))
      hostEnd == SkipUntil(afterAuth, {SLASH}, 1)
      host == SubSeq(afterAuth, 1, hostEnd - 1)
      hostPath == SubSeq(afterAuth, hostEnd, Len(afterAuth))
      AbsPath(q) == <<SLASH>> \o Join(UrlPathSegs(Split(SubSeq(q, 2, Len(q)), SLASH), <<>>), SLASH)
  IN IF hasAuth
       THEN [ok |-> \A i \in 1..Len(host) : host[i] \notin ForbiddenHost,
             pathname |-> IF Len(hostPath) = 0 THEN <<>> ELSE AbsPath(hostPath)]
     ELSE IF IsAbsolute(rest) THEN [ok |-> TRUE, pathname |-> AbsPath(rest)]
     ELSE IF hasScheme THEN [ok |-> TRUE, pathname |-> rest]
     ELSE [ok |-> TRUE,
           pathname |-> <<SLASH>> \o Join(UrlPathSegs(Split(rest, SLASH), <<>>), SLASH)]

\* A configured entry that is not a string.
NotAString == <<"<number>">>
IsString(p) == p # NotAString

\* ---------------------------------------------------------- normalizePaths
\* Set.add that keeps an element already in the set a second time.
SetAppend(seq, x) == Append(seq, x)

\* Set.add on the insertion-ordered set normalizedPaths.
SetAdd(seq, x) == IF \E i \in 1..Len(seq) : seq[i] = x THEN seq ELSE Append(seq, x)

\* The traversal guard of the file branch.
EscapesRoot(root, resolvedPath) == StartsWith(pathRelative(root, resolvedPath), DotDot)

\* One iteration of the loop of normalizePaths.
NormalizeOne(normalizedPaths, p, rootUri) ==
  IF ~IsString(p) THEN normalizedPaths
  ELSE IF isRemotePath(p) THEN SetAdd(normalizedPaths, p)
  ELSE IF ~rootUri.defined THEN normalizedPaths
  ELSE IF rootUri.scheme = FILE
    THEN LET resolvedPath == pathResolve(fsPath(rootUri), p) IN
         IF ~EscapesRoot(fsPath(rootUri), resolvedPath)
           THEN SetAdd(normalizedPaths, resolvedPath)
           ELSE normalizedPaths
    ELSE LET u == UrlParse(p) IN
         IF u.ok
           THEN SetAdd(normalizedPaths,
                       UriToString([rootUri EXCEPT !.path = rootUri.path \o u.pathname]))
           ELSE normalizedPaths

RECURSIVE NormalizeLoop(_, _, _)
NormalizeLoop(paths, rootUri, acc) ==
  IF Len(paths) = 0 THEN acc
  ELSE NormalizeLoop(Tail(paths), rootUri, NormalizeOne(acc, Head(paths), rootUri))

normalizePaths(paths, rootUri) == NormalizeLoop(paths, rootUri, <<>>)

\* getPathsFromConf: the configured list, when it is a non-empty array.
getPathsFromConf(themes, rootUri) ==
  IF Len(themes) > 0 THEN normalizePaths(themes, rootUri) ELSE <<>>


\* ------------------------------------------------------------ the workspace
\* Configured references and base directories the cache is run with.
RefT == <<"t">>
RefDotT == <<DOT, SLASH, "t">>
RefRemote == <<"h", "t", "t", "p", ":", SLASH, SLASH, "r">>
RefOutside == <<DOT, DOT, SLASH, DOT, DOT, SLASH, "x">>

FileRoot == Uri(FILE, <<>>, <<SLASH, "w", SLASH, "p">>)

\* {themes, rootUri}: the value of markdown.marp.themes and the base
\* directory of the document.
Workspaces ==
  { [themes |-> <<RefT, RefDotT, RefOutside>>, rootUri |-> FileRoot],
    [themes |-> <<RefRemote, RefT>>, rootUri |-> FileRoot] }

\* --------------------------------------------------------------- the cache
\* getPathsFromConf is a pure function of the configuration and the base
\* directory, which do not change during a behaviour: Init computes it once
\* and the operations read the result from confPaths.
VARIABLES
  themesConf,      \* markdown.marp.themes
  rootUri,         \* base directory loadStyles and getRegisteredStyles get
  confPaths,       \* getPathsFromConf(rootUri) for this configuration
  observedThemes,  \* Map<string, Theme>: path -> {css, type, path, watch}
  fetches,         \* registerTheme calls suspended at `await` of the fetch
  subs,            \* live onDidChange / onDidDelete subscriptions
  nextId,          \* next registerTheme call that fetches
  outcome,         \* promise of each such call: pending, resolved, rejected
  disk,            \* content version of each watched resource, 0 = absent
  refreshes,       \* markdown.preview.refresh commands executed
  tombstone,       \* history: path -> nextId at its delete event (0: none)
  lastOp,          \* history: the last operation and what it returned
  hist,            \* history: dispose() since the last loadStyles, and the
                   \* paths written while their re-resolution was in flight
  np,              \* the run of normalizePaths on its own
  sp,              \* the run of getSizePresets on its own
  tm,              \* the calls of fetch of utils.ts
  srv,             \* createWorkspaceProxyServer choosing its port
  req              \* the GET requests of the workspace proxy

cacheVars ==
  <<themesConf, rootUri, confPaths, observedThemes, fetches, subs, nextId, outcome, disk,
    refreshes, tombstone, lastOp, hist>>
\* The state of the functions that are modelled on their own.
pure == <<np, sp, tm, srv, req>>
vars == <<cacheVars, pure>>

Range(seq) == {seq[i] : i \in 1..Len(seq)}

\* ThemeType of registerTheme.
ThemeTypeOf(themePath) ==
  IF isRemotePath(themePath) THEN "Remote"
  ELSE IF isVirtualPath(themePath) THEN "VirtualFS"
  ELSE "File"

\* Whether registerTheme gets a watcherPattern.
HasWatcherPattern(type, themePath) ==
  \/ type = "File"
  \/ type = "VirtualFS" /\ UrlParse(themePath).ok

NoTheme == [css |-> 0, type |-> "none", path |-> <<>>, watch |-> 0]
EmptyMap == [k \in {} |-> NoTheme]

MapDelete(m, k) == [x \in DOMAIN m \ {k} |-> m[x]]
MapSet(m, k, v) == [x \in DOMAIN m \cup {k} |-> IF x = k THEN v ELSE m[x]]

\* The resources a watcher can be made for.
WatchedKeys(paths) == {k \in Range(paths) : ThemeTypeOf(k) # "Remote"}

\* History of the last operation: its name, the path it was about, a count
\* (fetches started, listeners called, or the id of the call), how the
\* call was started and the themes it returned or stored.
Op(op, path, n, origin, result) ==
  [op |-> op, path |-> path, n |-> n, origin |-> origin, result |-> result]

\* registerTheme without the lookup in observedThemes.
AlwaysFetch(themes, themePath) == TRUE

\* registerTheme up to its first await: a registered theme is returned at
\* once, anything else starts a fetch.
NeedsFetch(themes, themePath) == themePath \notin DOMAIN themes

NewFetch(id, themePath, origin) ==
  [id |-> id, path |-> themePath, type |-> ThemeTypeOf(themePath),
   origin |-> origin, css |-> 0]

Pending(n) == [i \in 1..n |-> "pending"]

NoHistory == [disposed |-> FALSE, lost |-> {}]

\* The functions modelled on their own, not running.
IdleNp == np = [paths |-> <<>>, rootUri |-> Undefined, result |-> <<>>, done |-> FALSE]
IdleSp == sp = [lines |-> <<>>, result |-> <<>>, done |-> FALSE]
IdleTm == tm = <<>>
IdleSrv == srv = [start |-> 0, busy |-> {}, port |-> 0, pc |-> "idle"]
IdleReq == req = <<>>

Init ==
  /\ \E w \in Workspaces : themesConf = w.themes /\ rootUri = w.rootUri
  /\ confPaths = getPathsFromConf(themesConf, rootUri)
  /\ observedThemes = EmptyMap
  /\ fetches = {}
  /\ subs = {}
  /\ nextId = 1
  /\ outcome = <<>>
  /\ disk \in [WatchedKeys(confPaths) -> {0, 1}]
  /\ refreshes = 0
  /\ tombstone = [k \in WatchedKeys(confPaths) |-> 0]
  /\ lastOp = Op("init", <<>>, 0, "", <<>>)
  /\ hist = NoHistory
  /\ IdleNp /\ IdleSp /\ IdleTm /\ IdleSrv /\ IdleReq

\* loadStyles(rootUri): registerTheme for every normalized path, in order.
LoadStyles ==
  LET missing == SelectSeq(confPaths, LAMBDA k : NeedsFetch(observedThemes, k))
  IN /\ nextId + Len(missing) - 1 <= MaxFetches
     /\ fetches' = fetches \cup
          {NewFetch(nextId + i - 1, missing[i], "load") : i \in 1..Len(missing)}
     /\ nextId' = nextId + Len(missing)
     /\ outcome' = outcome \o Pending(Len(missing))
     /\ tombstone' = [k \in DOMAIN tombstone |-> 0]
     /\ lastOp' = Op("loadStyles", <<>>, Len(missing), "", <<>>)
     /\ hist' = [hist EXCEPT !.disposed = FALSE]
     /\ UNCHANGED <<themesConf, rootUri, confPaths, observedThemes, subs, disk, refreshes, pure>>

\* getRegisteredStyles without the filter of unregistered paths.
getRegisteredStylesUnfiltered(themes, ps) ==
  [i \in 1..Len(ps) |-> IF ps[i] \in DOMAIN themes THEN themes[ps[i]] ELSE NoTheme]

\* getRegisteredStyles(rootUri).
getRegisteredStyles(themes, ps) ==
  LET got == [i \in 1..Len(ps) |-> IF ps[i] \in DOMAIN themes THEN themes[ps[i]] ELSE NoTheme]
  IN SelectSeq(got, LAMBDA t : t # NoTheme)

GetRegisteredStyles ==
  /\ lastOp' = Op("getRegisteredStyles", <<>>, 0, "",
                  getRegisteredStyles(observedThemes, confPaths))
  /\ UNCHANGED <<themesConf, rootUri, confPaths, observedThemes, fetches, subs, nextId,
                 outcome, disk, refreshes, tombstone, hist, pure>>

\* The fetch of a suspended registerTheme reads its source: readFile of the
\* resource, or the body of the HTTP response.
Readable(f) == f.type = "Remote" \/ (f.path \in DOMAIN disk /\ disk[f.path] > 0)
ContentOf(f) == IF f.type = "Remote" THEN 1 ELSE disk[f.path]

FetchRead(f) ==
  /\ f.css = 0
  /\ Readable(f)
  /\ fetches' = (fetches \ {f}) \cup {[f EXCEPT !.css = ContentOf(f)]}
  /\ lastOp' = Op("read", f.path, f.id, f.origin, <<>>)
  /\ UNCHANGED <<themesConf, rootUri, confPaths, observedThemes, subs, nextId, outcome,
                 disk, refreshes, tombstone, hist, pure>>

\* A rejection that ends every call in flight, as a fail-fast batch would.
FetchFailAbortsAll(f) ==
  /\ f.css = 0
  /\ fetches' = {}
  /\ outcome' = [i \in DOMAIN outcome |->
                   IF outcome[i] = "pending" THEN "rejected" ELSE outcome[i]]
  /\ lastOp' = Op("fail", f.path, f.id, f.origin, <<>>)
  /\ UNCHANGED <<themesConf, rootUri, confPaths, observedThemes, subs, nextId,
                 disk, refreshes, tombstone, hist, pure>>

\* The fetch rejects (file missing or unreadable, HTTP error, timeout): the
\* await of registerTheme throws and the call ends there. A change handler
\* awaiting this call ends with it.
FetchFail(f) ==
  /\ f.css = 0
  /\ fetches' = fetches \ {f}
  /\ outcome' = [outcome EXCEPT ![f.id] = "rejected"]
  /\ lastOp' = Op("fail", f.path, f.id, f.origin, <<>>)
  /\ UNCHANGED <<themesConf, rootUri, confPaths, observedThemes, subs, nextId, disk,
                 refreshes, tombstone, hist, pure>>

\* registerTheme subscribing to change events only.
ChangeSubOnly(f) ==
  IF HasWatcherPattern(f.type, f.path)
    THEN {[id |-> f.id, path |-> f.path, kind |-> "change"]}
    ELSE {}

\* The subscriptions registerTheme makes on its new fsWatcher.
NewSubs(f) ==
  IF HasWatcherPattern(f.type, f.path)
    THEN {[id |-> f.id, path |-> f.path, kind |-> "change"],
          [id |-> f.id, path |-> f.path, kind |-> "delete"]}
    ELSE {}

RegisteredTheme(f) ==
  [css |-> f.css, type |-> f.type, path |-> f.path,
   watch |-> IF HasWatcherPattern(f.type, f.path) THEN f.id ELSE 0]

\* registerTheme after its await: the watcher and its two subscriptions are
\* made, the theme is stored. The change handler that awaited this call
\* then asks for a preview refresh.
FetchComplete(f) ==
  /\ f.css # 0
  /\ fetches' = fetches \ {f}
  /\ subs' = subs \cup NewSubs(f)
  /\ observedThemes' = MapSet(observedThemes, f.path, RegisteredTheme(f))
  /\ outcome' = [outcome EXCEPT ![f.id] = "resolved"]
  /\ refreshes' = IF f.origin = "change" THEN refreshes + 1 ELSE refreshes
  /\ lastOp' = Op("complete", f.path, f.id, f.origin, <<RegisteredTheme(f)>>)
  /\ UNCHANGED <<themesConf, rootUri, confPaths, nextId, disk, tombstone, hist, pure>>

\* The live subscriptions of one kind on a resource, in creation order.
RECURSIVE SortedIds(_)
SortedIds(ids) ==
  IF ids = {} THEN <<>>
  ELSE LET m == CHOOSE x \in ids : \A y \in ids : x <= y
       IN <<m>> \o SortedIds(ids \ {m})

Listeners(kind, path) == {s \in subs : s.kind = kind /\ s.path = path}

\* A change handler that leaves the stale theme in the map: registerTheme
\* then returns it at once and no fetch is started.
ChangeHandlersKeepTheme(path) ==
  /\ subs' = subs \ Listeners("change", path)
  /\ lastOp' = Op("change", path, Cardinality(Listeners("change", path)), "", <<>>)
  /\ UNCHANGED <<observedThemes, fetches, nextId, outcome>>

\* onDidChange handlers up to their await: each disposes its own change
\* subscription, deletes the theme and calls registerTheme, which finds no
\* theme and starts a fetch.
ChangeHandlers(path) ==
  LET fired == Listeners("change", path)
      ids == SortedIds({s.id : s \in fired})
  IN /\ nextId + Len(ids) - 1 <= MaxFetches
     /\ subs' = subs \ fired
     /\ observedThemes' = IF fired = {} THEN observedThemes
                          ELSE MapDelete(observedThemes, path)
     /\ fetches' = fetches \cup
          {NewFetch(nextId + i - 1, path, "change") : i \in 1..Len(ids)}
     /\ nextId' = nextId + Len(ids)
     /\ outcome' = outcome \o Pending(Len(ids))
     /\ lastOp' = Op("change", path, Len(ids), "", <<>>)

\* The content a write leaves, different from the content before it.
NextContent(v) == IF v >= MaxVersion THEN 1 ELSE v + 1

\* The watched resource is written: every live onDidChange listener on it
\* is called.
FileChange(path) ==
  /\ disk[path] >= 1
  /\ disk' = [disk EXCEPT ![path] = NextContent(disk[path])]
  /\ ChangeHandlers(path)
  /\ hist' = IF Listeners("change", path) = {}
                 /\ \E f \in fetches : f.path = path /\ f.origin = "change"
               THEN [hist EXCEPT !.lost = @ \cup {path}]
               ELSE hist
  /\ UNCHANGED <<themesConf, rootUri, confPaths, refreshes, tombstone, pure>>

\* onDidDelete handlers: each disposes its own delete subscription and
\* deletes the theme.
DeleteHandlers(path) ==
  LET fired == Listeners("delete", path)
  IN /\ subs' = subs \ fired
     /\ observedThemes' = IF fired = {} THEN observedThemes
                          ELSE MapDelete(observedThemes, path)
     /\ tombstone' = IF fired # {} /\ path \in DOMAIN observedThemes
                       THEN [tombstone EXCEPT ![path] = nextId]
                       ELSE tombstone
     /\ lastOp' = Op("delete", path, Cardinality(fired), "", <<>>)

\* The watched resource is removed: every live onDidDelete listener on it
\* is called.
FileDelete(path) ==
  /\ disk[path] >= 1
  /\ disk' = [disk EXCEPT ![path] = 0]
  /\ DeleteHandlers(path)
  /\ UNCHANGED <<themesConf, rootUri, confPaths, fetches, nextId, outcome, refreshes, hist, pure>>

\* The resource is created again; the cache subscribes to no create event.
FileCreate(path) ==
  /\ disk[path] = 0
  /\ disk' = [disk EXCEPT ![path] = 1]
  /\ lastOp' = Op("create", path, 0, "", <<>>)
  /\ UNCHANGED <<themesConf, rootUri, confPaths, observedThemes, fetches, subs, nextId,
                 outcome, refreshes, tombstone, hist, pure>>

\* dispose(): the subscriptions of the themes in the map are disposed and
\* the map is cleared.
DisposedSubs(themes) ==
  {s \in subs : \E k \in DOMAIN themes : themes[k].watch = s.id}

Dispose ==
  /\ subs' = subs \ DisposedSubs(observedThemes)
  /\ observedThemes' = EmptyMap
  /\ lastOp' = Op("dispose", <<>>, Cardinality(fetches), "", <<>>)
  /\ hist' = [hist EXCEPT !.disposed = TRUE]
  /\ UNCHANGED <<themesConf, rootUri, confPaths, fetches, nextId, outcome, disk, refreshes,
                 tombstone, pure>>

Next ==
  \/ LoadStyles
  \/ GetRegisteredStyles
  \/ \E f \in fetches : FetchRead(f)
  \/ \E f \in fetches : FetchFail(f)
  \/ \E f \in fetches : FetchComplete(f)
  \/ \E k \in DOMAIN disk : FileChange(k)
  \/ \E k \in DOMAIN disk : FileDelete(k)
  \/ \E k \in DOMAIN disk : FileCreate(k)
  \/ Dispose

Spec == Init /\ [][Next]_vars


\* ------------------------------------------------------ claims on the cache
InFlight(path) == {f \in fetches : f.path = path}
Registered(path) == path \in DOMAIN observedThemes
AllRegistered == \A k \in Range(confPaths) : Registered(k)

\* C1: calls of registerTheme for one path that are in flight together
\* share one fetch.
C1_OneFetchPerKey ==
  \A f \in fetches : \A g \in fetches : f.path = g.path => f.id = g.id

\* C2, as stated: getRegisteredStyles never runs while a path is absent from
\* the map only because its change-triggered re-resolution is in flight.
C2_RefreshAtomic ==
  lastOp.op = "getRegisteredStyles" =>
    \A f \in fetches : f.origin = "change" => Registered(f.path)

\* C2, amended: what is atomic is the change handler up to its await. After
\* it the change subscriptions that fired are released, the stale theme is
\* out of the map and one re-fetch per handler is in flight, not yet read.
C2_InvalidateAtomic ==
  lastOp.op = "change" /\ lastOp.n > 0 =>
    /\ ~Registered(lastOp.path)
    /\ Listeners("change", lastOp.path) = {}
    /\ Cardinality({f \in InFlight(lastOp.path) :
                      f.origin = "change" /\ f.css = 0 /\ f.id >= nextId - lastOp.n})
         = lastOp.n

C2_ChangeHandled ==
  /\ lastOp.op = "change" /\ lastOp.n > 0
  /\ ~Registered(lastOp.path)
  /\ \E f \in InFlight(lastOp.path) : f.origin = "change"

\* C3: from a delete event of a registered path until the next loadStyles,
\* the path has no theme in the map and no fetch is started for it.
C3_DeletedStaysDeleted ==
  \A k \in DOMAIN tombstone :
    tombstone[k] > 0 =>
      /\ ~Registered(k)
      /\ \A f \in InFlight(k) : f.id < tombstone[k]

\* C4: every live subscription is one of the theme stored under its path,
\* so a path has at most one live change and one live delete subscription.
C4_SubscriptionsOwned ==
  /\ \A s \in subs : Registered(s.path) /\ observedThemes[s.path].watch = s.id
  /\ \A k \in DOMAIN disk :
       Cardinality(Listeners("change", k)) <= 1 /\ Cardinality(Listeners("delete", k)) <= 1

\* C5: after dispose() with no resolution in flight the map is empty and no
\* subscription is live.
C5_DisposeReleasesAll ==
  lastOp.op = "dispose" /\ fetches = {} =>
    observedThemes = EmptyMap /\ subs = {}

\* C6: a change event of a registered Local-File path removes the theme, and
\* the completion of the re-fetch stores one theme under the path, with the
\* css that fetch read and with both subscriptions of a new watcher live.
C6_ChangeReRegisters ==
  /\ lastOp.op = "change" /\ lastOp.n > 0 => ~Registered(lastOp.path)
  /\ lastOp.op = "complete" /\ lastOp.origin = "change"
       /\ ThemeTypeOf(lastOp.path) = "File" =>
         /\ Registered(lastOp.path)
         /\ observedThemes[lastOp.path].path = lastOp.path
         /\ observedThemes[lastOp.path].css = lastOp.result[1].css
         /\ observedThemes[lastOp.path].css # 0
         /\ observedThemes[lastOp.path].watch = lastOp.n
         /\ \A kind \in {"change", "delete"} :
              [id |-> lastOp.n, path |-> lastOp.path, kind |-> kind] \in subs
         /\ \A s \in subs : s.id = lastOp.n => s.path = lastOp.path

C6_ReRegistered ==
  /\ lastOp.op = "complete" /\ lastOp.origin = "change"
  /\ ThemeTypeOf(lastOp.path) = "File"
  /\ Registered(lastOp.path)

\* C7: loadStyles called when every configured path is registered starts no
\* fetch and leaves the map as it is.
C7_LoadStylesIdempotent ==
  [][LoadStyles /\ AllRegistered =>
       /\ fetches' = fetches
       /\ observedThemes' = observedThemes
       /\ nextId' = nextId
       /\ subs' = subs]_vars

C7_SecondCall ==
  /\ lastOp.op = "loadStyles" /\ lastOp.n = 0
  /\ Len(confPaths) > 0
  /\ AllRegistered
  /\ \A i \in DOMAIN outcome : outcome[i] = "resolved"

\* C8: loadStyles starts a fetch for every configured path that is not
\* registered; a fetch that fails stores nothing and leaves every other call
\* in flight as it is; a call that completes stores its theme and resolves,
\* whatever became of the others.
C8_FailureContained ==
  /\ [](lastOp.op = "loadStyles" =>
          \A k \in Range(confPaths) : Registered(k) \/ InFlight(k) # {})
  /\ [](lastOp.op = "complete" =>
          Registered(lastOp.path) /\ outcome[lastOp.n] = "resolved")
  /\ [][\A f \in fetches : FetchFail(f) =>
          /\ observedThemes' = observedThemes
          /\ subs' = subs
          /\ fetches' = fetches \ {f}
          /\ outcome'[f.id] = "rejected"
          /\ \A i \in DOMAIN outcome : i # f.id => outcome'[i] = outcome[i]]_vars

\* One batch of two paths: the first failed, the second is stored.
C8_SiblingStored ==
  /\ lastOp.op = "complete"
  /\ Len(confPaths) = 2 /\ nextId = 3
  /\ outcome[1] = "rejected" /\ outcome[2] = "resolved"
  /\ ~Registered(confPaths[1]) /\ Registered(confPaths[2])

\* C10: getRegisteredStyles starts no fetch and returns the themes of the
\* configured paths that are in the map, in the order of the paths.
RegisteredPaths == SelectSeq(confPaths, LAMBDA k : Registered(k))

C10_RegisteredStylesExact ==
  /\ [](lastOp.op = "getRegisteredStyles" =>
          /\ Len(lastOp.result) = Len(RegisteredPaths)
          /\ \A i \in 1..Len(RegisteredPaths) :
               lastOp.result[i] = observedThemes[RegisteredPaths[i]])
  /\ [][GetRegisteredStyles =>
          UNCHANGED <<observedThemes, fetches, subs, nextId, outcome>>]_vars

\* One of two configured paths is registered, the other is in flight.
C10_InFlightOmitted ==
  /\ lastOp.op = "getRegisteredStyles"
  /\ Len(lastOp.result) = 1
  /\ Len(confPaths) = 2
  /\ \E k \in Range(confPaths) : ~Registered(k) /\ InFlight(k) # {}


\* ------------------------------------------------- normalizePaths on its own
\* Path segments the references are built of: empty (an absolute path, a
\* doubled or trailing slash), ".", "..", the two names of the base
\* directory and a name that begins with two dots.
Segments == {<<>>, <<DOT>>, DotDot, <<"w">>, <<"p">>, <<DOT, DOT, "x">>}

SegLists(n) == UNION {[1..k -> Segments] : k \in 1..n}
Refs(n) == {Join(segs, SLASH) : segs \in SegLists(n)}

VfsRoot == Uri(<<"v", "f", "s">>, <<"h">>, <<SLASH, "w">>)
MemRoot == Uri(<<"m", "e", "m">>, <<>>, <<SLASH, "w">>)
Roots == {FileRoot, VfsRoot, MemRoot, Undefined}

\* Lists of two configured entries, for every kind of base directory.
PairRefs == {RefT, RefDotT, RefRemote, RefOutside, NotAString}
Pairs == {<<a, b>> : a \in PairRefs, b \in PairRefs}

NormalizeInputs ==
  {[paths |-> <<r>>, rootUri |-> FileRoot] : r \in Refs(MaxSegs)}
    \cup {[paths |-> ps, rootUri |-> root] : ps \in Pairs, root \in Roots}

IdleCache ==
  /\ themesConf = <<>>
  /\ rootUri = Undefined
  /\ confPaths = <<>>
  /\ observedThemes = EmptyMap
  /\ fetches = {}
  /\ subs = {}
  /\ nextId = 1
  /\ outcome = <<>>
  /\ disk = EmptyMap
  /\ refreshes = 0
  /\ tombstone = EmptyMap
  /\ lastOp = Op("init", <<>>, 0, "", <<>>)
  /\ hist = NoHistory

InitPaths ==
  /\ IdleCache
  /\ IdleSp /\ IdleTm /\ IdleSrv /\ IdleReq
  /\ \E in \in NormalizeInputs :
       np = [paths |-> in.paths, rootUri |-> in.rootUri, result |-> <<>>, done |-> FALSE]

NormalizePaths ==
  /\ ~np.done
  /\ np' = [np EXCEPT !.result = normalizePaths(np.paths, np.rootUri), !.done = TRUE]
  /\ UNCHANGED <<cacheVars, sp, tm, srv, req>>

NextPaths == NormalizePaths

SpecPaths == InitPaths /\ [][NextPaths]_vars

\* The resolved path is the base directory or lies inside it: the segments
\* of the base are a prefix of its segments.
InsideRoot(root, ref) ==
  LET b == ResolveSegs(root, <<>>)
      r == ResolveSegs(root, ref)
  IN Len(r) >= Len(b) /\ SubSeq(r, 1, Len(b)) = b

FileCase == np.done /\ np.rootUri = FileRoot /\ Len(np.paths) = 1

\* C9: for a file base directory a non-remote reference is kept exactly
\* when it resolves to the base directory or inside it.
C9_KeptIffInside ==
  FileCase =>
    LET ref == np.paths[1]
        kept == np.result = <<pathResolve(fsPath(FileRoot), ref)>>
    IN /\ InsideRoot(fsPath(FileRoot), ref) => kept
       /\ ~InsideRoot(fsPath(FileRoot), ref) => np.result = <<>>

\* C9, the half that holds: whatever resolves outside the base is dropped.
C9_OutsideDropped ==
  FileCase /\ ~InsideRoot(fsPath(FileRoot), np.paths[1]) => np.result = <<>>


\* C14: configured references that normalize to one key give one key in
\* the paths of the configuration; a loadStyles call starts at most one
\* fetch for a key, and the completion of that fetch stores the one theme
\* of the key.
C14_OneKeyOneRecord ==
  /\ \A i \in 1..Len(confPaths) : \A j \in 1..Len(confPaths) :
       confPaths[i] = confPaths[j] => i = j
  /\ lastOp.op = "loadStyles" =>
       \A f \in fetches : \A g \in fetches :
         (f.id >= nextId - lastOp.n /\ g.id >= nextId - lastOp.n /\ f.path = g.path)
           => f.id = g.id
  /\ lastOp.op = "complete" /\ lastOp.origin = "load" =>
       Registered(lastOp.path) /\ observedThemes[lastOp.path] = lastOp.result[1]

\* "t" and "./t" are configured, one loadStyles call ran and its only fetch
\* has completed.
C14_TwoRefsOneFetch ==
  /\ RefT \in Range(themesConf) /\ RefDotT \in Range(themesConf)
  /\ lastOp.op = "complete" /\ lastOp.origin = "load"
  /\ nextId = 2
  /\ fetches = {}
  /\ DOMAIN observedThemes = {pathResolve(fsPath(FileRoot), RefT)}


\* C16: when the re-fetch a change handler awaits settles, resolved or
\* rejected, the handler asks for a preview refresh.
C16_RefreshWhateverOutcome ==
  [][\A f \in fetches :
       f.origin = "change" /\ (FetchComplete(f) \/ FetchFail(f))
         => refreshes' = refreshes + 1]_vars

\* C17: after a fetch has failed the path has no theme in the map and no
\* live subscription, and no fetch was started in its place.
C17_FailureLeavesNothing ==
  lastOp.op = "fail" =>
    /\ ~Registered(lastOp.path)
    /\ \A s \in subs : s.path # lastOp.path
    /\ outcome[lastOp.n] = "rejected"
    /\ \A f \in fetches : f.id < nextId

\* C19: a path whose file was written while its change-triggered re-fetch
\* was in flight and no change subscription was live has, once no fetch is
\* pending, the content of the file as the css of its theme.
C19_NoLostChange ==
  \A k \in hist.lost :
    (fetches = {} /\ Registered(k) /\ disk[k] > 0) => observedThemes[k].css = disk[k]

\* C20: from dispose() until the next loadStyles call the map is empty and
\* no subscription is live.
C20_DisposedStaysEmpty ==
  hist.disposed => observedThemes = EmptyMap /\ subs = {}

\* C20, the part on the map alone.
C20_DisposedMapEmpty ==
  hist.disposed => observedThemes = EmptyMap


\* C18: a key made from a reference that starts with http:// or https://
\* is typed Remote; any other key is typed File when the base directory has
\* the file scheme and VirtualFS when it has another scheme.
C18_TypeFollowsBase ==
  np.done =>
    \A k \in Range(np.result) :
      ThemeTypeOf(k) =
        IF StartsWith(k, HTTP \o <<SLASH, SLASH>>) \/ StartsWith(k, HTTPS \o <<SLASH, SLASH>>)
          THEN "Remote"
        ELSE IF np.rootUri.scheme = FILE THEN "File"
        ELSE "VirtualFS"


\* ------------------------------------------------------- fetch of utils.ts
\* fetch(url, { timeout }): an AbortController, a timer that aborts it, the
\* request of node-fetch, res.text() and the finally that clears the timer.
\* A call is {phase, timer, left, aborted, result, lateAbort}:
\*   phase   idle, request (waiting for the response), body (res.text()
\*           pending), settled (the promise fetch returned has settled)
\*   timer   none, armed, fired, cleared; left: ms until it is due
\*   lateAbort  history: controller.abort() ran after the promise settled
Timeout == 5000

IdleCall ==
  [phase |-> "idle", timer |-> "none", left |-> 0, aborted |-> FALSE,
   result |-> "pending", lateAbort |-> FALSE]

Calls == 1..MaxCalls

InitFetch ==
  /\ IdleCache
  /\ IdleNp /\ IdleSp /\ IdleSrv /\ IdleReq
  /\ tm = [i \in Calls |-> IdleCall]

\* finally() without clearTimeout.
KeepTimer(t) == t

\* .finally(() => clearTimeout(timeoutCallback))
ClearTimeout(t) == IF t = "armed" THEN "cleared" ELSE t

\* The promise chain settles: its finally callback runs in the same turn.
Settle(c, result) ==
  [c EXCEPT !.phase = "settled", !.result = result, !.timer = ClearTimeout(c.timer)]

\* fetch(url, { timeout: 5000 }): setTimeout and nodeFetch are called.
CallFetch(i) ==
  /\ tm[i].phase = "idle"
  /\ tm' = [tm EXCEPT ![i] = [@ EXCEPT !.phase = "request", !.timer = "armed",
                                       !.left = Timeout]]
  /\ UNCHANGED <<cacheVars, np, sp, srv, req>>

\* Time passes for every armed timer.
Tick ==
  /\ \E i \in Calls : tm[i].timer = "armed" /\ tm[i].left > 0
  /\ tm' = [i \in Calls |->
              IF tm[i].timer = "armed"
                THEN [tm[i] EXCEPT !.left =
                        IF @ > Timeout \div TicksPerTimeout
                          THEN @ - Timeout \div TicksPerTimeout ELSE 0]
                ELSE tm[i]]
  /\ UNCHANGED <<cacheVars, np, sp, srv, req>>

\* The timer is due: controller.abort(). A request or a body read that is
\* pending rejects with an AbortError.
TimerFire(i) ==
  /\ tm[i].timer = "armed"
  /\ tm[i].left = 0
  /\ tm' = [tm EXCEPT ![i] =
              IF tm[i].phase \in {"request", "body"}
                THEN Settle([@ EXCEPT !.timer = "fired", !.aborted = TRUE], "rejected")
                ELSE [@ EXCEPT !.timer = "fired", !.aborted = TRUE, !.lateAbort = TRUE]]
  /\ UNCHANGED <<cacheVars, np, sp, srv, req>>

\* The response arrives: a status that is not ok throws, else res.text().
Respond(i, ok) ==
  /\ tm[i].phase = "request"
  /\ tm' = [tm EXCEPT ![i] = IF ok THEN [@ EXCEPT !.phase = "body"]
                                   ELSE Settle(@, "rejected")]
  /\ UNCHANGED <<cacheVars, np, sp, srv, req>>

\* The connection fails before the response or while the body is read.
NetworkError(i) ==
  /\ tm[i].phase \in {"request", "body"}
  /\ tm' = [tm EXCEPT ![i] = Settle(@, "rejected")]
  /\ UNCHANGED <<cacheVars, np, sp, srv, req>>

\* res.text() resolves.
BodyDone(i) ==
  /\ tm[i].phase = "body"
  /\ tm' = [tm EXCEPT ![i] = Settle(@, "resolved")]
  /\ UNCHANGED <<cacheVars, np, sp, srv, req>>

NextFetch ==
  \/ \E i \in Calls : CallFetch(i)
  \/ Tick
  \/ \E i \in Calls : TimerFire(i)
  \/ \E i \in Calls : \E ok \in BOOLEAN : Respond(i, ok)
  \/ \E i \in Calls : NetworkError(i)
  \/ \E i \in Calls : BodyDone(i)

\* Time passes and a timer that is due is run by the event loop.
SpecFetch ==
  /\ InitFetch
  /\ [][NextFetch]_vars
  /\ WF_vars(Tick)
  /\ \A i \in Calls : WF_vars(TimerFire(i))

\* C11: a call that is pending when its timer is due is aborted and
\* rejects, so every call settles; a call that has settled has no armed
\* timer, and abort never runs after the call has settled.
C11_TimeoutAborts ==
  /\ [](\A i \in Calls :
          /\ tm[i].phase = "settled" => tm[i].timer # "armed"
          /\ ~tm[i].lateAbort
          /\ tm[i].aborted => tm[i].phase = "settled" /\ tm[i].result = "rejected")
  /\ \A i \in Calls : (tm[i].phase \in {"request", "body"}) ~> (tm[i].phase = "settled")

\* One call was aborted by its timer, another resolved and cleared its own.
C11_TimedOutAndCleared ==
  \E i \in Calls : \E j \in Calls :
    /\ tm[i].timer = "fired" /\ tm[i].aborted /\ tm[i].result = "rejected"
    /\ tm[j].timer = "cleared" /\ tm[j].result = "resolved"


\* ------------------------------------------- port of the workspace proxy
\* createWorkspaceProxyServer: getPortPromise({ port: 8192 +
\* Math.floor(Math.random() * 10000) }) and app.listen(port). portfinder
\* tries the port it is given and goes up by one while the port is in use;
\* no stopPort is passed.
BasePort == 8192
PortRange == 10000

\* Math.floor(Math.random() * 10000): the values at both ends of 0..9999.
Offsets == {0, 1, PortRange - 2, PortRange - 1}

\* The ports in use: any of the MaxBusy ports from the first candidate on.
BusySets(start) == SUBSET (start..(start + MaxBusy - 1))

InitPort ==
  /\ IdleCache
  /\ IdleNp /\ IdleSp /\ IdleTm /\ IdleReq
  /\ IdleSrv

\* getPortPromise is called with the random first candidate.
GetPort(offset, busy) ==
  /\ srv.pc = "idle"
  /\ srv' = [start |-> BasePort + offset, busy |-> busy,
             port |-> BasePort + offset, pc |-> "probe"]
  /\ UNCHANGED <<cacheVars, np, sp, tm, req>>

\* portfinder tests the candidate: in use, it goes on with the next port.
Probe ==
  /\ srv.pc = "probe"
  /\ srv' = IF srv.port \in srv.busy
              THEN [srv EXCEPT !.port = @ + 1]
              ELSE [srv EXCEPT !.pc = "found"]
  /\ UNCHANGED <<cacheVars, np, sp, tm, req>>

\* app.listen(port, '127.0.0.1')
Listen ==
  /\ srv.pc = "found"
  /\ srv' = [srv EXCEPT !.pc = "listening"]
  /\ UNCHANGED <<cacheVars, np, sp, tm, req>>

NextPort ==
  \/ \E offset \in Offsets : \E busy \in BusySets(BasePort + offset) : GetPort(offset, busy)
  \/ Probe
  \/ Listen

SpecPort == InitPort /\ [][NextPort]_vars

\* C12: the port the proxy listens on is within 8192..18191, whatever
\* ports are in use.
C12_PortInRange ==
  srv.pc = "listening" => srv.port \in BasePort..(BasePort + PortRange - 1)


\* ----------------------------------------------------------- getSizePresets
Whitespace == {" ", "\t"}

\* String.prototype.split(/\s+/): a run of whitespace is one separator; a
\* line that begins or ends with whitespace has an empty first or last part.
RECURSIVE SplitWhitespace(_, _, _)
SplitWhitespace(s, i, cur) ==
  IF i > Len(s) THEN <<cur>>
  ELSE IF s[i] \in Whitespace
    THEN <<cur>> \o SplitWhitespace(s, SkipWhile(s, Whitespace, i), <<>>)
  ELSE SplitWhitespace(s, i + 1, Append(cur, s[i]))

False == <<"f", "a", "l", "s", "e">>

\* Map.prototype.delete that removes nothing.
SizesKeep(sizes, name) == sizes

\* Map.prototype.delete on the insertion-ordered map sizes.
SizesDelete(sizes, name) == SelectSeq(sizes, LAMBDA e : e.name # name)

\* Map.prototype.set: the value of a present key is replaced in place, a
\* new key goes to the end.
SizesSet(sizes, preset) ==
  IF \E i \in 1..Len(sizes) : sizes[i].name = preset.name
    THEN [i \in 1..Len(sizes) |->
            IF sizes[i].name = preset.name THEN preset ELSE sizes[i]]
    ELSE Append(sizes, preset)

\* One iteration of the loop over sizeMeta.
SizeLine(sizes, size) ==
  LET args == SplitWhitespace(size, 1, <<>>) IN
    IF Len(args) = 3
      THEN SizesSet(sizes, [name |-> args[1], width |-> args[2], height |-> args[3]])
    ELSE IF Len(args) = 2 /\ args[2] = False
      THEN SizesDelete(sizes, args[1])
    ELSE sizes

RECURSIVE SizeLoop(_, _)
SizeLoop(sizes, sizeMeta) ==
  IF Len(sizeMeta) = 0 THEN sizes
  ELSE SizeLoop(SizeLine(sizes, Head(sizeMeta)), Tail(sizeMeta))

\* getSizePresets(doc, themeName), from the size metadata of the theme on.
getSizePresets(sizeMeta) == SizeLoop(<<>>, sizeMeta)

\* Lines of the metadata "size" of a theme.
LineA43False == <<"a", " ", "4", ":", "3", " ">> \o False
LineA169 == <<"a", " ", "1", "6", " ", "9">>
LineB43 == <<"b", " ", "4", " ", "3">>
LineAFalse == <<"a", " ">> \o False
LineBFalse == <<"b", "\t", " ">> \o False
LineA169Space == LineA169 \o <<" ">>

SizeLines ==
  {LineA43False, LineA169, LineB43, LineAFalse, LineBFalse, LineA169Space}

SizeMetas == UNION {[1..k -> SizeLines] : k \in 0..MaxLines}

InitSizes ==
  /\ IdleCache
  /\ IdleNp /\ IdleTm /\ IdleSrv /\ IdleReq
  /\ \E sizeMeta \in SizeMetas : sp = [lines |-> sizeMeta, result |-> <<>>, done |-> FALSE]

GetSizePresets ==
  /\ ~sp.done
  /\ sp' = [sp EXCEPT !.result = getSizePresets(sp.lines), !.done = TRUE]
  /\ UNCHANGED <<cacheVars, np, tm, srv, req>>

NextSizes == GetSizePresets

SpecSizes == InitSizes /\ [][NextSizes]_vars

\* The parts of a line, and the lines that declare or remove a name.
ArgsOf(line) == SplitWhitespace(line, 1, <<>>)
IsDeclaration(line) == Len(ArgsOf(line)) = 3
IsRemoval(line) == Len(ArgsOf(line)) = 2 /\ ArgsOf(line)[2] = False
LinesFor(lines, name) ==
  {i \in 1..Len(lines) :
     (IsDeclaration(lines[i]) \/ IsRemoval(lines[i])) /\ ArgsOf(lines[i])[1] = name}
LastFor(lines, name) ==
  CHOOSE i \in LinesFor(lines, name) : \A j \in LinesFor(lines, name) : j <= i

\* C13: for each name the result holds the width and height of the last
\* line that declares or removes the name when that line is a declaration,
\* and no entry otherwise; a name has at most one entry, and lines of
\* another shape add nothing.
C13_LastWriterWins ==
  sp.done =>
    /\ \A i \in 1..Len(sp.result) : \A j \in 1..Len(sp.result) :
         sp.result[i].name = sp.result[j].name => i = j
    /\ \A e \in Range(sp.result) :
         /\ LinesFor(sp.lines, e.name) # {}
         /\ IsDeclaration(sp.lines[LastFor(sp.lines, e.name)])
         /\ e.width = ArgsOf(sp.lines[LastFor(sp.lines, e.name)])[2]
         /\ e.height = ArgsOf(sp.lines[LastFor(sp.lines, e.name)])[3]
    /\ \A i \in 1..Len(sp.lines) :
         LET name == ArgsOf(sp.lines[i])[1] IN
           (LinesFor(sp.lines, name) # {}
              /\ IsDeclaration(sp.lines[LastFor(sp.lines, name)]))
             => \E e \in Range(sp.result) : e.name = name

\* The lines "a 4:3 false", "a 16 9", "a 16 9", "b 4 3" give a = 16x9 and
\* b = 4x3.
C13_Example ==
  /\ sp.done
  /\ sp.lines = <<LineA43False, LineA169, LineA169, LineB43>>
  /\ sp.result = << [name |-> <<"a">>, width |-> <<"1", "6">>, height |-> <<"9">>],
                    [name |-> <<"b">>, width |-> <<"4">>, height |-> <<"3">>] >>


\* ----------------------------------------- GET handler of the proxy server
\* A request is {url, host, pc, stat, responses}: the request target and
\* the Host header, the position of the handler (new, stat, read, done,
\* threw), the result of stat, and the status codes sent so far.
StatusOk == 200
StatusNotFound == 404
StatusError == 500

\* new URL(req.url, `http://${req.headers.host}`) as {ok, pathname}: the
\* host of an http URL may not be empty, in the base or in a target that
\* begins with "//".
HttpUrl(url, host) ==
  LET u == UrlParse(url)
      ownHost == StartsWith(url, <<SLASH, SLASH>>)
      authority == SubSeq(url, 3, SkipUntil(url, {SLASH, "?", "#"}, 3) - 1)
      baseOk == Len(host) > 0 /\ \A i \in 1..Len(host) : host[i] \notin ForbiddenHost
  IN [ok |-> baseOk /\ u.ok /\ (ownHost => Len(authority) > 0),
      pathname |-> IF Len(u.pathname) = 0 THEN <<SLASH>> ELSE u.pathname]

\* Request targets and Host headers.
Targets == {<<SLASH, "t">>, <<SLASH, "d", SLASH>>, <<SLASH, "t", "?", "q">>,
            <<SLASH, SLASH>>}
Hosts == {<<"h">>, <<"a", " ", "b">>}

NewRequest == [url |-> <<>>, host |-> <<>>, pc |-> "new", stat |-> "", responses |-> <<>>]

Requests == 1..MaxRequests

InitProxy ==
  /\ IdleCache
  /\ IdleNp /\ IdleSp /\ IdleTm /\ IdleSrv
  /\ req = [i \in Requests |-> NewRequest]

\* res.status(code).send(body)
Send(r, code) == [r EXCEPT !.responses = Append(@, code), !.pc = "done"]

\* The handler up to its first await. new URL() is called before the try
\* block: when it throws, the promise of the handler rejects and the handler
\* sends nothing; the framework either leaves the request unanswered or
\* answers it with its own error response.
HandleGet(i, url, host, caught) ==
  /\ req[i].pc = "new"
  /\ req' = [req EXCEPT ![i] =
               LET r == [@ EXCEPT !.url = url, !.host = host] IN
                 IF HttpUrl(url, host).ok THEN [r EXCEPT !.pc = "stat"]
                 ELSE IF caught
                   THEN [r EXCEPT !.pc = "threw", !.responses = Append(@, StatusError)]
                 ELSE [r EXCEPT !.pc = "threw"]]
  /\ UNCHANGED <<cacheVars, np, sp, tm, srv>>

\* workspace.fs.stat(vscodeUri) settles: an error and a directory fall
\* through to the 404, a file goes on to readFile.
StatDone(i, result) ==
  /\ req[i].pc = "stat"
  /\ req' = [req EXCEPT ![i] =
               IF result = "file" THEN [@ EXCEPT !.pc = "read", !.stat = result]
               ELSE Send([@ EXCEPT !.stat = result], StatusNotFound)]
  /\ UNCHANGED <<cacheVars, np, sp, tm, srv>>

\* workspace.fs.readFile(vscodeUri) settles.
ReadDone(i, ok) ==
  /\ req[i].pc = "read"
  /\ req' = [req EXCEPT ![i] = Send(@, IF ok THEN StatusOk ELSE StatusNotFound)]
  /\ UNCHANGED <<cacheVars, np, sp, tm, srv>>

NextProxy ==
  \/ \E i \in Requests : \E url \in Targets : \E host \in Hosts :
       \E caught \in BOOLEAN : HandleGet(i, url, host, caught)
  \/ \E i \in Requests : \E result \in {"file", "directory", "error"} : StatDone(i, result)
  \/ \E i \in Requests : \E ok \in BOOLEAN : ReadDone(i, ok)

SpecProxy == InitProxy /\ [][NextProxy]_vars

\* C15: every GET request the handler has finished with got exactly one
\* response, 200 or 404.
C15_ExactlyOneResponse ==
  \A i \in Requests :
    req[i].pc \in {"done", "threw"} =>
      Len(req[i].responses) = 1 /\ req[i].responses[1] \in {StatusOk, StatusNotFound}


====
